---- MODULE Spec2Model ----
(***************************************************************************)
(* Model of outdoor_job_scraper.py: the fetcher (make_request), the        *)
(* extractors, the aggregator (run_scraping), the digest builder           *)
(* (create_email / _generate_html_content), the delivery (GmailSender) and *)
(* main.                                                                   *)
(***************************************************************************)
EXTENDS Integers, Sequences, FiniteSets, TLC

\* ---------------------------------------------------------------- bounds
MaxAttempts == 3      \* largest max_retries argument explored
MaxCards    == 2      \* candidates (cards / links) served by all pages together
MaxRuns     == 2      \* run_scraping calls on one scraper
MaxLen      == 3      \* length of the lists handed to create_email directly
MaxSends    == 2      \* send API executions by a direct user of GmailSender
MaxSaves    == 1      \* direct save_to_json calls

\* ------------------------------------------------------ program constants
PolitenessDelay   == 1    \* delay_request(seconds=1.0)
DefaultMaxRetries == 3    \* make_request(url, max_retries=3)
IndeedLimit       == 20   \* job_cards[:20]
ParkLimit         == 10   \* job_links[:10]

VARIABLES
    mr_args,      \* arguments of the make_request call under study
    mr_out,       \* its outcome [result, events]; result "pending" before the call
    web,          \* the candidates (cards / links) the six sites serve
    pc,           \* position inside run_scraping ("idle" outside a call)
    ret,          \* how the last run_scraping call ended
    calls,        \* run_scraping calls made on this scraper
    jobs,         \* self.jobs
    park_jobs,    \* local list `jobs` of scrape_county_parks
    snapshot,     \* content of the last JSON file written
    entry,        \* self.jobs at the entry of the current call
    yielded,      \* list returned by each extractor in the current call
    aggregated,   \* self.jobs after line 402 of the current call
    last,         \* the last extractor call: source, fetch result, candidates
    fetched,      \* sources whose page the current call has requested, in order
    persist,      \* save_to_json in the current call: "no", "written", "failed"
    writes,       \* snapshot files written so far
    email_jobs,   \* argument `jobs` of create_email
    digest,       \* the rendered digest
    card_in,      \* the Indeed job card under study
    card_out,     \* what the loop body of scrape_indeed made of it
    gm_token,     \* the token file (token.json)
    gm_credentials, \* whether the credentials file (credentials.json) exists
    gm_service,   \* whether GmailSender.service is set
    gm_last,      \* the last GmailSender method call and what it did
    sends,        \* executions of the send API call
    email_address, \* EMAIL_ADDRESS in the environment ("" when unset)
    main_pc       \* position inside main ("none": the classes are used directly)

fetch_vars  == <<mr_args, mr_out>>
run_vars    == <<web, pc, ret, calls, jobs, park_jobs, snapshot, entry,
                 yielded, aggregated, last, fetched, persist, writes>>
digest_vars == <<email_jobs, digest>>
card_vars   == <<card_in, card_out>>
delivery_vars == <<gm_token, gm_credentials, gm_service, gm_last, sends,
                   email_address, main_pc>>
vars == <<mr_args, mr_out, web, pc, ret, calls, jobs, park_jobs, snapshot,
          entry, yielded, aggregated, last, fetched, persist, writes,
          email_jobs, digest, card_in, card_out,
          gm_token, gm_credentials, gm_service, gm_last, sends,
          email_address, main_pc>>

\* ------------------------------------------------------------ records
\* JobListing (title, company, source, url; the other fields play no part)
JobListing(title, company, source, url) ==
    [title |-> title, company |-> company, source |-> source, url |-> url]

\* the fixed order in which run_scraping visits the sources
SourceOrder ==
    <<"Indeed.com", "Hillsborough County Parks", "Pinellas County Parks",
      "Tampa Parks & Recreation", "St. Pete Parks & Recreation",
      "Florida State Parks">>

SourceSet == {SourceOrder[i] : i \in 1..Len(SourceOrder)}

extend_mut(list, more) == more \o list
extend_replace(list, more) == more
\* list.extend(more)
extend(list, more) == list \o more

\* a scraper right after __init__: self.jobs = [], no call made
RunIdle ==
    /\ pc = "idle"
    /\ ret = "none"
    /\ calls = 0
    /\ jobs = <<>>
    /\ park_jobs = <<>>
    /\ snapshot = <<>>
    /\ entry = <<>>
    /\ yielded = [s \in SourceSet |-> <<>>]
    /\ aggregated = <<>>
    /\ last = [source |-> "", fetch |-> "none", cards |-> <<>>, processed |-> {}]
    /\ fetched = <<>>
    /\ persist = "no"
    /\ writes = 0

NoDigest == [built |-> FALSE, total_jobs |-> 0, sections |-> <<>>]

DigestIdle ==
    /\ email_jobs = <<>>
    /\ digest = NoDigest

\* Python's None
PyNone == "<None>"

\* an Indeed job card: for each field, which selector finds an element
\* ("primary", "fallback" or "none"); for the link, whether the title
\* element holds an <a> with href, an <a> without href, or no <a>
NoCard == [title |-> "none", company |-> "none", location |-> "none",
           description |-> "none", date |-> "none", link |-> "none"]

CardIdle ==
    /\ card_in = NoCard
    /\ card_out = [kind |-> "pending"]

\* the token file: whether it exists and, for the credentials loaded from
\* it, whether they hold an access token, are expired, hold a refresh token
NoTokenFile ==
    [exists |-> FALSE, token |-> FALSE, expired |-> FALSE, refresh_token |-> FALSE]

NoCall ==
    [op |-> "none", raised |-> FALSE, pre_token |-> NoTokenFile,
     pre_credentials |-> FALSE, pre_service |-> FALSE, refresh |-> "no",
     flow |-> "no", wrote |-> FALSE, built |-> FALSE, sent |-> "no"]

\* no GmailSender in use, main not running
DeliveryIdle ==
    /\ gm_token = NoTokenFile
    /\ gm_credentials = FALSE
    /\ gm_service = FALSE
    /\ gm_last = NoCall
    /\ sends = 0
    /\ email_address = ""
    /\ main_pc = "none"

\* ------------------------------------------------------------- fetcher
\* What one attempt meets: "ok" (2xx and a parsed document), "request_exc"
\* (any requests.exceptions.RequestException: connection error, timeout,
\* HTTPError from raise_for_status), "other_exc" (an exception that is not a
\* RequestException, e.g. one raised while BeautifulSoup builds the document).
Outcomes == {"ok", "request_exc", "other_exc"}

Event(op, attempt, secs) == [op |-> op, attempt |-> attempt, secs |-> secs]

\* delay_request: time.sleep(seconds)
delay_request_mut(events, attempt) == events
delay_request(events, attempt) ==
    Append(events, Event("delay", attempt, PolitenessDelay))

\* if attempt < max_retries - 1
should_backoff_mut(attempt, max_retries) == attempt < max_retries
should_backoff(attempt, max_retries) == attempt < max_retries - 1

\* time.sleep(2 ** attempt)
backoff_secs_mut(attempt) == 2 * attempt
backoff_secs(attempt) == 2 ^ attempt

\* except requests.exceptions.RequestException
caught_by_make_request(outcome) == outcome = "request_exc"

RECURSIVE make_request_loop(_, _, _, _)
make_request_loop(attempt, oracle, max_retries, events) ==
    IF attempt >= max_retries
    THEN [result |-> "None", events |-> events]              \* loop ran out
    ELSE LET ev == Append(delay_request(events, attempt),
                          Event("get", attempt, 0))
         IN  IF oracle[attempt] = "ok"
             THEN [result |-> "soup", events |-> ev]
             ELSE IF caught_by_make_request(oracle[attempt])
             THEN IF should_backoff(attempt, max_retries)
                  THEN make_request_loop(attempt + 1, oracle, max_retries,
                           Append(ev, Event("backoff", attempt,
                                            backoff_secs(attempt))))
                  ELSE [result |-> "None", events |-> ev]
             ELSE [result |-> "raised", events |-> ev]       \* propagates

make_request(oracle, max_retries) ==
    make_request_loop(0, oracle, max_retries, <<>>)

Oracles == [0..MaxAttempts -> Outcomes]

FetchIdle ==
    /\ mr_args = [oracle |-> [a \in 0..MaxAttempts |-> "ok"], max_retries |-> 0]
    /\ mr_out = [result |-> "pending", events |-> <<>>]

InitFetch ==
    /\ mr_args \in [oracle : Oracles, max_retries : 0..MaxAttempts]
    /\ mr_out = [result |-> "pending", events |-> <<>>]
    /\ web = <<>>
    /\ RunIdle
    /\ DigestIdle
    /\ CardIdle
    /\ DeliveryIdle

MakeRequest ==
    /\ mr_out.result = "pending"
    /\ mr_out' = make_request(mr_args.oracle, mr_args.max_retries)
    /\ UNCHANGED <<mr_args, run_vars, digest_vars, card_vars, delivery_vars>>

NextFetch == MakeRequest

SpecFetch == InitFetch /\ [][NextFetch]_vars

\* ------------------------------------------------- fetcher: properties
FetchDone == mr_out.result # "pending"

EventsOf(op) == {i \in 1..Len(mr_out.events) : mr_out.events[i].op = op}

\* the attempts that were actually made
AttemptsMade == {mr_out.events[i].attempt : i \in EventsOf("get")}

AllAttemptsFailed ==
    \A a \in AttemptsMade : mr_args.oracle[a] # "ok"

\* C1: whatever failure each attempt hits (request error or a failure while
\* building the parsed document), a fetch whose attempts all fail returns
\* None and never raises.
C1_FailSoft ==
    (FetchDone /\ AllAttemptsFailed) =>
        (mr_out.result = "None" /\ mr_out.result # "raised")

\* every one of the max_retries attempts fails the way a fetch fails (network
\* error, timeout, non-success status)
AllRequestsFail ==
    /\ mr_args.max_retries >= 1
    /\ \A a \in 0..(mr_args.max_retries - 1) : mr_args.oracle[a] = "request_exc"

\* C2: n failed attempts against a limit of n give None and exactly n-1
\* backoff waits, one after each failed attempt except the last.
C2_BackoffCount ==
    (FetchDone /\ AllRequestsFail) =>
        /\ mr_out.result = "None"
        /\ Cardinality(EventsOf("backoff")) = mr_args.max_retries - 1
        /\ {mr_out.events[i].attempt : i \in EventsOf("backoff")}
               = 0..(mr_args.max_retries - 2)
        /\ mr_out.events[Len(mr_out.events)].op = "get"

C2_Witness ==
    /\ FetchDone /\ AllRequestsFail
    /\ mr_args.max_retries = 3
    /\ Cardinality(EventsOf("backoff")) = 2

\* C3: the wait after the failed attempt number k (zero-based, not the last)
\* lasts 2^k; there is no backoff wait of another length.
C3_BackoffLength ==
    FetchDone =>
        /\ \A i \in EventsOf("backoff") :
              /\ mr_out.events[i].secs = 2 ^ mr_out.events[i].attempt
              /\ mr_args.oracle[mr_out.events[i].attempt] = "request_exc"
              /\ mr_out.events[i].attempt < mr_args.max_retries - 1
              /\ i > 1 /\ mr_out.events[i-1] = Event("get", mr_out.events[i].attempt, 0)
        /\ \A i \in EventsOf("get") :
              (/\ mr_args.oracle[mr_out.events[i].attempt] = "request_exc"
               /\ mr_out.events[i].attempt < mr_args.max_retries - 1)
              => (/\ i < Len(mr_out.events)
                  /\ mr_out.events[i+1] =
                        Event("backoff", mr_out.events[i].attempt,
                              2 ^ mr_out.events[i].attempt))

C3_Witness ==
    /\ FetchDone
    /\ \E i, j \in EventsOf("backoff") :
          /\ mr_out.events[i].secs = 1
          /\ mr_out.events[j].secs = 2

\* C4: at most max_retries GETs, each preceded by exactly one politeness
\* delay; the first successful attempt ends the call with the document.
C4_BoundedAttempts ==
    FetchDone =>
        /\ Cardinality(EventsOf("get")) <= mr_args.max_retries
        /\ Cardinality(EventsOf("delay")) = Cardinality(EventsOf("get"))
        /\ \A i \in EventsOf("get") :
              /\ i > 1
              /\ mr_out.events[i-1] =
                    Event("delay", mr_out.events[i].attempt, PolitenessDelay)
        /\ \A i \in EventsOf("delay") :
              i < Len(mr_out.events) /\ mr_out.events[i+1].op = "get"
        /\ \A i \in EventsOf("get") :
              mr_args.oracle[mr_out.events[i].attempt] = "ok"
              => (i = Len(mr_out.events) /\ mr_out.result = "soup")
        /\ (mr_out.result = "soup") =>
              (/\ mr_out.events # <<>>
               /\ mr_out.events[Len(mr_out.events)].op = "get"
               /\ mr_args.oracle[mr_out.events[Len(mr_out.events)].attempt] = "ok")

C4_Witness ==
    /\ FetchDone
    /\ mr_out.result = "soup"
    /\ Cardinality(EventsOf("get")) = 2
    /\ mr_args.max_retries = 3

\* ------------------------------------------------------ digest builder
\* jobs_by_source is a dict: keys unique, iterated in insertion order; it is
\* modelled as a sequence of [source, jobs] entries.
HasKey(jobs_by_source, source) ==
    \E i \in 1..Len(jobs_by_source) : jobs_by_source[i].source = source

\* jobs_by_source[source] = []
new_key(jobs_by_source, source) ==
    Append(jobs_by_source, [source |-> source, jobs |-> <<>>])

\* jobs_by_source[source].append(job)
append_job_mut(jobs_by_source, job) ==
    [i \in 1..Len(jobs_by_source) |->
        IF jobs_by_source[i].source = job.source
        THEN [jobs_by_source[i] EXCEPT !.jobs = <<job>> \o @]
        ELSE jobs_by_source[i]]
append_job(jobs_by_source, job) ==
    [i \in 1..Len(jobs_by_source) |->
        IF jobs_by_source[i].source = job.source
        THEN [jobs_by_source[i] EXCEPT !.jobs = Append(@, job)]
        ELSE jobs_by_source[i]]

\* if source not in jobs_by_source
needs_new_key_mut(jobs_by_source, source) ==
    \/ jobs_by_source = <<>>
    \/ jobs_by_source[Len(jobs_by_source)].source # source
needs_new_key(jobs_by_source, source) == ~HasKey(jobs_by_source, source)

\* the grouping loop of create_email
RECURSIVE group_by_source(_, _, _)
group_by_source(js, i, jobs_by_source) ==
    IF i > Len(js) THEN jobs_by_source
    ELSE LET job == js[i]
             d   == IF needs_new_key(jobs_by_source, job.source)
                    THEN new_key(jobs_by_source, job.source)
                    ELSE jobs_by_source
         IN  group_by_source(js, i + 1, append_job(d, job))

RECURSIVE SumLen(_, _)
SumLen(d, i) == IF i > Len(d) THEN 0 ELSE Len(d[i].jobs) + SumLen(d, i + 1)

\* _generate_html_content: the summary total, then one section per dict
\* entry with the header "{source} ({len(jobs)} jobs)" and one block per job
generate_html_content(jobs_by_source) ==
    [built      |-> TRUE,
     total_jobs |-> SumLen(jobs_by_source, 1),
     sections   |-> [i \in 1..Len(jobs_by_source) |->
                       [source |-> jobs_by_source[i].source,
                        count  |-> Len(jobs_by_source[i].jobs),
                        blocks |-> jobs_by_source[i].jobs]]]

create_email(js) == generate_html_content(group_by_source(js, 1, <<>>))

\* lists a caller may hand to create_email
DigestSources == {SourceOrder[1], SourceOrder[2], SourceOrder[6]}
DigestRecords ==
    {JobListing("Park Ranger", "Any", s, u) : s \in DigestSources, u \in {"1", "2"}}
DigestInputs ==
    UNION {[1..n -> DigestRecords] : n \in 0..MaxLen}

InitDigest ==
    /\ email_jobs \in DigestInputs
    /\ digest = NoDigest
    /\ FetchIdle
    /\ web = <<>>
    /\ RunIdle
    /\ CardIdle
    /\ DeliveryIdle

CreateEmailOf ==
    /\ ~digest.built
    /\ digest' = create_email(email_jobs)
    /\ UNCHANGED <<email_jobs, fetch_vars, run_vars, card_vars, delivery_vars>>

NextDigest == CreateEmailOf

SpecDigest == InitDigest /\ [][NextDigest]_vars

\* ------------------------------------------------- digest: properties
InputSources == {email_jobs[i].source : i \in 1..Len(email_jobs)}

FirstIndex(source) ==
    CHOOSE i \in 1..Len(email_jobs) :
        /\ email_jobs[i].source = source
        /\ \A j \in 1..(i - 1) : email_jobs[j].source # source

\* C8: one section per distinct source of the input, and the count in a
\* section header is the number of input records with that source.
C8_SectionsAndCounts ==
    digest.built =>
        /\ Len(digest.sections) = Cardinality(InputSources)
        /\ {digest.sections[i].source : i \in 1..Len(digest.sections)}
              = InputSources
        /\ \A i, j \in 1..Len(digest.sections) :
              digest.sections[i].source = digest.sections[j].source => i = j
        /\ \A i \in 1..Len(digest.sections) :
              digest.sections[i].count =
                 Cardinality({k \in 1..Len(email_jobs) :
                                email_jobs[k].source = digest.sections[i].source})

C8_Witness ==
    /\ digest.built
    /\ Len(email_jobs) = 3
    /\ email_jobs[1].source = email_jobs[3].source
    /\ email_jobs[1].source # email_jobs[2].source
    /\ Len(digest.sections) = 2
    /\ digest.sections[1].count = 2

\* C9: sections come in the order of first occurrence of their source in
\* the input, and the blocks of a section are the input records of that
\* source in input order, interleaved input included.
C9_FirstSeenOrder ==
    digest.built =>
        /\ \A i, j \in 1..Len(digest.sections) :
              i < j => FirstIndex(digest.sections[i].source)
                         < FirstIndex(digest.sections[j].source)
        /\ \A i \in 1..Len(digest.sections) :
              digest.sections[i].blocks =
                 SelectSeq(email_jobs,
                           LAMBDA r : r.source = digest.sections[i].source)

C9_Witness ==
    /\ digest.built
    /\ Len(email_jobs) = 3
    /\ email_jobs[1].source = email_jobs[3].source
    /\ email_jobs[1].source # email_jobs[2].source
    /\ email_jobs[1] # email_jobs[3]
    /\ digest.sections[1].blocks = <<email_jobs[1], email_jobs[3]>>
    /\ digest.sections[2].blocks = <<email_jobs[2]>>

\* ------------------------------------------------------------ the web
\* A candidate (an Indeed job card or a careers-page link): its title text
\* ("" when the card has no title element) and whether extracting it raises
\* (a title link without href on Indeed, an href urljoin rejects on a park
\* site).
NoTitle == ""

Cards ==
    {[title |-> "Park Ranger",   bad |-> FALSE],
     [title |-> "Park Ranger",   bad |-> TRUE],
     [title |-> NoTitle,         bad |-> FALSE]}

\* vocabulary words occurring in title.lower()
TitleWords(title) ==
    CASE title = "Park Ranger" -> {"park", "ranger"}
      [] OTHER                 -> {}

\* the keyword lists of the county / city extractors and of the state one
ParkKeywords  == {"park", "recreation", "outdoor", "nature", "environmental"}
StateKeywords == {"park", "ranger", "recreation", "outdoor", "nature",
                  "environmental"}

\* what the sites serve: candidates tagged with the index of their source,
\* listed source by source
Served == [src : 1..Len(SourceOrder), card : Cards]

Webs ==
    {w \in UNION {[1..n -> Served] : n \in 0..MaxCards} :
        \A i \in 1..(Len(w) - 1) : w[i].src <= w[i + 1].src}

RECURSIVE PageOf(_, _, _)
PageOf(w, k, i) ==
    IF i > Len(w) THEN <<>>
    ELSE IF w[i].src = k THEN <<w[i].card>> \o PageOf(w, k, i + 1)
    ELSE PageOf(w, k, i + 1)

Page(k) == PageOf(web, k, 1)

Min(a, b) == IF a < b THEN a ELSE b

\* seq[:n]
Take(seq, n) == SubSeq(seq, 1, Min(Len(seq), n))

\* ---------------------------------------------------------- extractors
\* the loop over job_cards[:20] of scrape_indeed; `processed` records the
\* candidates the loop body was entered for
RECURSIVE indeed_loop(_, _, _, _)
indeed_loop(cards, i, js, processed) ==
    IF i > Len(cards) THEN [jobs |-> js, processed |-> processed]
    ELSE IF cards[i].title = NoTitle
    THEN indeed_loop(cards, i + 1, js, processed \cup {i})     \* continue
    ELSE IF cards[i].bad
    THEN indeed_loop(cards, i + 1, js, processed \cup {i})     \* except: continue
    ELSE indeed_loop(cards, i + 1,
             Append(js, JobListing(cards[i].title, "Unknown Company",
                                   "Indeed.com", ToString(i))),
             processed \cup {i})

\* scrape_indeed, given what make_request gave and the page served
scrape_indeed(fetch, page) ==
    IF fetch = "raised"
    THEN [raised |-> TRUE, jobs |-> <<>>, cards |-> <<>>, processed |-> {}]
    ELSE IF fetch = "None"
    THEN [raised |-> FALSE, jobs |-> <<>>, cards |-> <<>>, processed |-> {}]
    ELSE LET cards == Take(page, IndeedLimit)
             out   == indeed_loop(cards, 1, <<>>, {})
         IN  [raised |-> FALSE, jobs |-> out.jobs, cards |-> cards,
              processed |-> out.processed]

\* any(keyword in title.lower() for keyword in [...])
keyword_match(title, keywords) == TitleWords(title) \cap keywords # {}

\* the loop over job_links[:10] of a park extractor; the try block encloses
\* the whole loop, so an error ends it with the jobs appended so far
RECURSIVE park_loop(_, _, _, _, _, _, _)
park_loop(links, i, js, processed, keywords, company, source) ==
    IF i > Len(links) THEN [jobs |-> js, processed |-> processed]
    ELSE IF ~keyword_match(links[i].title, keywords)
    THEN park_loop(links, i + 1, js, processed \cup {i}, keywords, company, source)
    ELSE IF links[i].bad
    THEN [jobs |-> js, processed |-> processed \cup {i}]       \* except, after the loop
    ELSE park_loop(links, i + 1,
             Append(js, JobListing(links[i].title, company, source, ToString(i))),
             processed \cup {i}, keywords, company, source)

\* the body shared by the five park extractors
scrape_park(fetch, page, keywords, company, source) ==
    IF fetch # "soup"                     \* None, or an exception caught
    THEN [jobs |-> <<>>, cards |-> <<>>, processed |-> {}]
    ELSE LET links == Take(page, ParkLimit)
             out   == park_loop(links, 1, <<>>, {}, keywords, company, source)
         IN  [jobs |-> out.jobs, cards |-> links, processed |-> out.processed]

scrape_hillsborough_parks(fetch, page) ==
    scrape_park(fetch, page, ParkKeywords, "Hillsborough County", SourceOrder[2])
scrape_pinellas_parks(fetch, page) ==
    scrape_park(fetch, page, ParkKeywords, "Pinellas County", SourceOrder[3])
scrape_tampa_parks(fetch, page) ==
    scrape_park(fetch, page, ParkKeywords, "City of Tampa", SourceOrder[4])
scrape_stpete_parks(fetch, page) ==
    scrape_park(fetch, page, ParkKeywords, "City of St. Petersburg", SourceOrder[5])
scrape_fl_state_parks(fetch, page) ==
    scrape_park(fetch, page, StateKeywords, "Florida State Parks", SourceOrder[6])

\* ---------------------------------------------------------- aggregator
create_sample_jobs_mut ==
    <<JobListing("Park Ranger - Entry Level", "Hillsborough County Parks",
                 "Hillsborough County Parks", "https://www.hillsboroughcounty.org/jobs"),
      JobListing("Environmental Specialist", "Pinellas County",
                 "Hillsborough County Parks", "https://www.pinellas.gov/jobs"),
      JobListing("Recreation Coordinator", "City of Tampa",
                 "Hillsborough County Parks", "https://www.tampa.gov/jobs"),
      JobListing("Wildlife Biologist Assistant", "Florida State Parks",
                 "Hillsborough County Parks", "https://www.floridastateparks.org/jobs"),
      JobListing("Outdoor Education Instructor", "Tampa Bay Nature Center",
                 "Indeed.com", "https://example.com/apply")>>
create_sample_jobs ==
    <<JobListing("Park Ranger - Entry Level", "Hillsborough County Parks",
                 "Hillsborough County Parks", "https://www.hillsboroughcounty.org/jobs"),
      JobListing("Environmental Specialist", "Pinellas County",
                 "Pinellas County Parks", "https://www.pinellas.gov/jobs"),
      JobListing("Recreation Coordinator", "City of Tampa",
                 "Tampa Parks & Recreation", "https://www.tampa.gov/jobs"),
      JobListing("Wildlife Biologist Assistant", "Florida State Parks",
                 "Florida State Parks", "https://www.floridastateparks.org/jobs"),
      JobListing("Outdoor Education Instructor", "Tampa Bay Nature Center",
                 "Indeed.com", "https://example.com/apply")>>

\* if len(self.jobs) == 0: self.jobs.extend(self.create_sample_jobs())
with_sample_fallback_mut(js) ==
    IF Len(js) <= 1 THEN extend(js, create_sample_jobs) ELSE js
with_sample_fallback(js) ==
    IF Len(js) = 0 THEN extend(js, create_sample_jobs) ELSE js

\* result of make_request(url) with the default attempt limit
FetchResults ==
    {make_request(o, DefaultMaxRetries).result :
        o \in [0..(DefaultMaxRetries - 1) -> Outcomes]}

Last(k, fetch, out) ==
    [source |-> SourceOrder[k], fetch |-> fetch, cards |-> out.cards,
     processed |-> out.processed]

InitRun ==
    /\ web \in Webs
    /\ RunIdle
    /\ FetchIdle
    /\ DigestIdle
    /\ CardIdle
    /\ DeliveryIdle

\* run_scraping, lines 394-398: the call starts and scrapes Indeed
ScrapeIndeed ==
    /\ pc = "idle"
    /\ ret # "raised"
    /\ calls < MaxRuns
    /\ \E fetch \in FetchResults :
         LET out == scrape_indeed(fetch, Page(1))
         IN  /\ calls' = calls + 1
             /\ entry' = jobs
             /\ park_jobs' = <<>>
             /\ aggregated' = <<>>
             /\ last' = Last(1, fetch, out)
             /\ fetched' = <<SourceOrder[1]>>
             /\ persist' = "no"
             /\ yielded' = [s \in SourceSet |->
                              IF s = SourceOrder[1] THEN out.jobs ELSE <<>>]
             /\ IF out.raised
                THEN /\ pc' = "idle"
                     /\ ret' = "raised"
                     /\ jobs' = jobs
                ELSE /\ pc' = "hillsborough"
                     /\ ret' = "none"
                     /\ jobs' = extend(jobs, out.jobs)
    /\ UNCHANGED <<web, snapshot, writes, fetch_vars, digest_vars, card_vars, delivery_vars>>

\* one park extractor called from scrape_county_parks and its jobs.extend
ParkStep(k, out, fetch, next) ==
    /\ park_jobs' = extend(park_jobs, out.jobs)
    /\ yielded' = [yielded EXCEPT ![SourceOrder[k]] = out.jobs]
    /\ last' = Last(k, fetch, out)
    /\ fetched' = Append(fetched, SourceOrder[k])
    /\ pc' = next
    /\ UNCHANGED <<web, ret, calls, jobs, snapshot, entry, aggregated,
                   persist, writes, fetch_vars, digest_vars, card_vars, delivery_vars>>

ScrapeHillsborough ==
    /\ pc = "hillsborough"
    /\ \E fetch \in FetchResults :
         ParkStep(2, scrape_hillsborough_parks(fetch, Page(2)), fetch, "pinellas")

ScrapePinellas ==
    /\ pc = "pinellas"
    /\ \E fetch \in FetchResults :
         ParkStep(3, scrape_pinellas_parks(fetch, Page(3)), fetch, "tampa")

ScrapeTampa ==
    /\ pc = "tampa"
    /\ \E fetch \in FetchResults :
         ParkStep(4, scrape_tampa_parks(fetch, Page(4)), fetch, "stpete")

ScrapeStPete ==
    /\ pc = "stpete"
    /\ \E fetch \in FetchResults :
         ParkStep(5, scrape_stpete_parks(fetch, Page(5)), fetch, "fl_state")

ScrapeFlStateParks ==
    /\ pc = "fl_state"
    /\ \E fetch \in FetchResults :
         ParkStep(6, scrape_fl_state_parks(fetch, Page(6)), fetch, "finish")

\* run_scraping, lines 402-414: extend with the park jobs, fall back to the
\* samples, save_to_json, return self.jobs
FinishRun ==
    /\ pc = "finish"
    /\ LET all   == extend(jobs, park_jobs)
           final == with_sample_fallback(all)
       IN  /\ aggregated' = all
           /\ jobs' = final
           /\ \E written \in BOOLEAN :
                IF written
                THEN /\ snapshot' = final
                     /\ ret' = "returned"
                     /\ persist' = "written"
                     /\ writes' = writes + 1
                ELSE /\ snapshot' = snapshot                  \* open() fails
                     /\ ret' = "raised"
                     /\ persist' = "failed"
                     /\ writes' = writes
    /\ pc' = "idle"
    /\ UNCHANGED <<web, calls, park_jobs, entry, yielded, last, fetched,
                   fetch_vars, digest_vars, card_vars, delivery_vars>>

\* create_email on the list run_scraping returned: the last step, as in main
\* (send_email builds the digest after the scraping is over)
CreateEmail ==
    /\ pc = "idle"
    /\ ret = "returned"
    /\ email_jobs' = jobs
    /\ digest' = create_email(jobs)
    /\ pc' = "emailed"
    /\ UNCHANGED <<web, ret, calls, jobs, park_jobs, snapshot, entry,
                   yielded, aggregated, last, fetched, persist, writes,
                   fetch_vars, card_vars, delivery_vars>>

NextRun ==
    \/ ScrapeIndeed
    \/ ScrapeHillsborough
    \/ ScrapePinellas
    \/ ScrapeTampa
    \/ ScrapeStPete
    \/ ScrapeFlStateParks
    \/ FinishRun
    \/ CreateEmail

SpecRun == InitRun /\ [][NextRun]_vars

\* ---------------------------------------------- aggregator: properties
Returned == pc = "idle" /\ ret = "returned"

RECURSIVE ConcatYielded(_)
ConcatYielded(k) ==
    IF k > Len(SourceOrder) THEN <<>>
    ELSE yielded[SourceOrder[k]] \o ConcatYielded(k + 1)

RECURSIVE SumYielded(_)
SumYielded(k) ==
    IF k > Len(SourceOrder) THEN 0
    ELSE Len(yielded[SourceOrder[k]]) + SumYielded(k + 1)

SomeSourceYielded == \E s \in SourceSet : yielded[s] # <<>>

\* C5 as stated: for every call in which some source yields a record, the
\* returned list is the concatenation of that call's per-source lists in
\* the fixed source order and has the sum of their lengths.
C5_EveryCall ==
    (Returned /\ SomeSourceYielded) =>
        /\ jobs = ConcatYielded(1)
        /\ Len(jobs) = SumYielded(1)

\* C5 amended: the same for a call that starts with an empty record list
\* (the first call on a scraper); a later call returns the records already
\* held followed by that concatenation.
C5_Concatenation ==
    (Returned /\ SomeSourceYielded) =>
        /\ jobs = entry \o ConcatYielded(1)
        /\ Len(jobs) = Len(entry) + SumYielded(1)
        /\ (entry = <<>>) =>
              (jobs = ConcatYielded(1) /\ Len(jobs) = SumYielded(1))

C5_Witness ==
    /\ Returned
    /\ entry = <<>>
    /\ yielded[SourceOrder[1]] # <<>>
    /\ yielded[SourceOrder[6]] # <<>>
    /\ Len(jobs) = 2
    /\ jobs[1].source = SourceOrder[1]
    /\ jobs[2].source = SourceOrder[6]

Titles(js) == [i \in 1..Len(js) |-> js[i].title]

\* C6: when the aggregated list is empty after all extractors ran, the
\* output is the sample set, 5 records with the fixed titles in the fixed
\* order; in every other case the output is the aggregated list itself.
C6_SampleFallback ==
    Returned =>
        /\ (aggregated = <<>>) =>
              /\ jobs = create_sample_jobs
              /\ Len(jobs) = 5
              /\ Titles(jobs) = <<"Park Ranger - Entry Level",
                                  "Environmental Specialist",
                                  "Recreation Coordinator",
                                  "Wildlife Biologist Assistant",
                                  "Outdoor Education Instructor">>
        /\ (aggregated # <<>>) => jobs = aggregated

C6_Witness ==
    /\ Returned
    /\ aggregated = <<>>
    /\ Len(jobs) = 5

\* the digest of a run in which no source yielded a record and the samples
\* were substituted
DigestOfSamples ==
    /\ pc = "emailed"
    /\ digest.built
    /\ email_jobs = jobs
    /\ aggregated = <<>>
    /\ ~SomeSourceYielded

\* C7 as stated: that digest has 2 source sections.
C7_TwoSections ==
    DigestOfSamples => Len(digest.sections) = 2

\* C7 amended: that digest has 5 source sections, one per sample record
\* (the five samples have five different sources), in sample order, each
\* showing the count 1.
C7_FiveSections ==
    DigestOfSamples =>
        /\ Len(digest.sections) = 5
        /\ \A i \in 1..5 :
              /\ digest.sections[i].source = create_sample_jobs[i].source
              /\ digest.sections[i].count = 1
              /\ digest.sections[i].count =
                    Cardinality({k \in 1..Len(jobs) :
                                   jobs[k].source = digest.sections[i].source})
        /\ digest.total_jobs = 5

C7_Witness ==
    /\ DigestOfSamples
    /\ Len(digest.sections) = 5

\* C10: in every extractor an error on one candidate skips that candidate
\* only; every candidate of the page is still processed.
C10_PerRecordIsolation ==
    (last.fetch = "soup") => last.processed = 1..Len(last.cards)

\* C12: a fetch that fails is never fatal: whatever the six fetches meet,
\* a call that is over has requested all six sources in the fixed order,
\* kept the records of the sources that succeeded and reached save_to_json.
C12_NeverFatal ==
    (pc = "idle" /\ calls > 0) =>
        /\ fetched = SourceOrder
        /\ persist # "no"
        /\ aggregated = entry \o ConcatYielded(1)

\* ------------------------------------------- one Indeed card, field by field
Found == {"primary", "fallback", "none"}

IndeedCards ==
    [title : Found, company : Found, location : Found, description : Found,
     date : Found, link : {"href", "no_href", "none"}]

\* the text of the element a selector found
ElemText(field, found) ==
    CASE field = "title"       /\ found = "primary"  -> "Park Ranger"
      [] field = "title"       /\ found = "fallback" -> "Park Ranger (link)"
      [] field = "company"     /\ found = "primary"  -> "Acme Parks"
      [] field = "company"     /\ found = "fallback" -> "Acme Parks Tampa, FL"
      [] field = "location"    /\ found = "primary"  -> "Tampa, FL"
      [] field = "location"    /\ found = "fallback" -> "Tampa"
      [] field = "description" /\ found = "primary"  -> "Patrol the park"
      [] field = "description" /\ found = "fallback" -> "Summary: patrol"
      [] field = "date"        /\ found = "primary"  -> "3 days ago"
      [] field = "date"        /\ found = "fallback" -> "Posted 3 days ago"

\* elem = card.find(primary) or card.find(fallback)
\* value = elem.get_text(strip=True) if elem else placeholder
text_or_mut(field, found, placeholder) ==
    IF found = "primary" THEN ElemText(field, found) ELSE placeholder
text_or(field, found, placeholder) ==
    IF found # "none" THEN ElemText(field, found) ELSE placeholder

\* urljoin(base_url, title_elem.find('a')['href']) if title_elem.find('a') else ""
job_url(link) == IF link = "none" THEN "" ELSE "https://www.indeed.com/viewjob"

\* the try block of the loop of scrape_indeed, for one card
extract_indeed_card(card) ==
    IF card.title = "none"
    THEN [kind |-> "skipped"]                    \* if not title_elem: continue
    ELSE IF card.link = "no_href"
    THEN [kind |-> "error"]                      \* KeyError, caught: continue
    ELSE [kind |-> "job",
          job  |-> [title       |-> ElemText("title", card.title),
                    company     |-> text_or("company", card.company,
                                            "Unknown Company"),
                    location    |-> text_or("location", card.location,
                                            "Tampa Bay Area"),
                    description |-> text_or("description", card.description,
                                            "No description available"),
                    url         |-> job_url(card.link),
                    date_posted |-> text_or("date", card.date, PyNone),
                    experience_level |-> PyNone,
                    source      |-> "Indeed.com"]]

InitCard ==
    /\ card_in \in IndeedCards
    /\ card_out = [kind |-> "pending"]
    /\ FetchIdle
    /\ web = <<>>
    /\ RunIdle
    /\ DigestIdle
    /\ DeliveryIdle

ExtractCard ==
    /\ card_out.kind = "pending"
    /\ card_out' = extract_indeed_card(card_in)
    /\ UNCHANGED <<card_in, fetch_vars, run_vars, digest_vars, delivery_vars>>

NextCard == ExtractCard

SpecCard == InitCard /\ [][NextCard]_vars

\* ---------------------------------------------------- card: properties
CardDone == card_out.kind # "pending"

Placeholders(job) ==
    /\ (card_in.company = "none")     => job.company = "Unknown Company"
    /\ (card_in.location = "none")    => job.location = "Tampa Bay Area"
    /\ (card_in.description = "none") => job.description = "No description available"
    /\ (card_in.date = "none")        => job.date_posted = PyNone
    /\ (card_in.link = "none")        => job.url = ""

\* C11 as stated: whatever fields (title included) no selector finds, the
\* card still yields a record, with the placeholder in each missing field.
C11_AlwaysEmits ==
    (CardDone /\ card_in.link # "no_href") =>
        (card_out.kind = "job" /\ Placeholders(card_out.job))

\* C11 amended: a card yields a record exactly when a title element is
\* found and extraction raises no error; that record carries "Unknown
\* Company", "Tampa Bay Area", "No description available", None (posting
\* date) and "" (link) in the fields no selector found, and the found text
\* otherwise. A card without title element is skipped.
C11_PlaceholdersButTitle ==
    CardDone =>
        /\ (card_out.kind = "job") <=>
              (card_in.title # "none" /\ card_in.link # "no_href")
        /\ (card_in.title = "none") => card_out.kind = "skipped"
        /\ (card_out.kind = "job") =>
              /\ Placeholders(card_out.job)
              /\ (card_in.company # "none") =>
                    card_out.job.company = ElemText("company", card_in.company)
              /\ (card_in.location # "none") =>
                    card_out.job.location = ElemText("location", card_in.location)
              /\ (card_in.description # "none") =>
                    card_out.job.description =
                        ElemText("description", card_in.description)
              /\ (card_in.date # "none") =>
                    card_out.job.date_posted = ElemText("date", card_in.date)

C11_Witness ==
    /\ CardDone
    /\ card_in.title = "fallback"
    /\ card_in.company = "none" /\ card_in.location = "none"
    /\ card_in.description = "none" /\ card_in.date = "none"
    /\ card_in.link = "none"
    /\ card_out.kind = "job"
    /\ card_out.job.company = "Unknown Company"

\* ------------------------------------------------------------ delivery
TokenFiles ==
    {NoTokenFile} \cup
    [exists : {TRUE}, token : BOOLEAN, expired : BOOLEAN, refresh_token : BOOLEAN]

\* creds.valid: an access token that is not expired
creds_valid(creds) == creds.token /\ ~creds.expired

\* creds and creds.expired and creds.refresh_token
can_refresh_mut(creds) == creds.exists /\ creds.refresh_token
can_refresh(creds) == creds.exists /\ creds.expired /\ creds.refresh_token

\* credentials as refresh() or run_local_server() leave them, saved by to_json()
FreshToken ==
    [exists |-> TRUE, token |-> TRUE, expired |-> FALSE, refresh_token |-> TRUE]

\* GmailSender.authenticate; refresh_ok / flow_ok: whether creds.refresh and
\* flow.run_local_server succeed when they are called
authenticate(token, credentials, service, refresh_ok, flow_ok) ==
    LET base == [raised |-> FALSE, refresh |-> "no", flow |-> "no",
                 wrote |-> FALSE, built |-> FALSE, token |-> token,
                 service |-> service]
    IN  IF token.exists /\ creds_valid(token)                \* not (not creds or not creds.valid)
        THEN [base EXCEPT !.built = TRUE, !.service = TRUE]
        ELSE IF can_refresh(token)
        THEN IF refresh_ok
             THEN [base EXCEPT !.refresh = "ok", !.wrote = TRUE,
                               !.token = FreshToken, !.built = TRUE,
                               !.service = TRUE]
             ELSE [base EXCEPT !.refresh = "failed", !.raised = TRUE]
        ELSE IF ~credentials
        THEN [base EXCEPT !.raised = TRUE]                   \* FileNotFoundError
        ELSE IF flow_ok
        THEN [base EXCEPT !.flow = "ok", !.wrote = TRUE,
                          !.token = FreshToken, !.built = TRUE,
                          !.service = TRUE]
        ELSE [base EXCEPT !.flow = "failed", !.raised = TRUE]

\* GmailSender.send_email; send_ok: whether the send call succeeds
send_email_mut(service, send_ok) ==
    IF ~service
    THEN [raised |-> TRUE, created |-> FALSE, sent |-> "no"]
    ELSE [raised |-> FALSE, created |-> TRUE,
          sent |-> IF send_ok THEN "ok" ELSE "failed"]
send_email(service, send_ok) ==
    IF ~service
    THEN [raised |-> TRUE, created |-> FALSE, sent |-> "no"]   \* raise Exception
    ELSE [raised |-> ~send_ok, created |-> TRUE,               \* except: raise
          sent |-> IF send_ok THEN "ok" ELSE "failed"]

\* the effect of one authenticate call on the sender
AuthenticateCall ==
    \E refresh_ok, flow_ok \in BOOLEAN :
        LET out == authenticate(gm_token, gm_credentials, gm_service,
                                refresh_ok, flow_ok)
        IN  /\ gm_token' = out.token
            /\ gm_service' = out.service
            /\ gm_last' = [op |-> "authenticate", raised |-> out.raised,
                           pre_token |-> gm_token,
                           pre_credentials |-> gm_credentials,
                           pre_service |-> gm_service,
                           refresh |-> out.refresh, flow |-> out.flow,
                           wrote |-> out.wrote, built |-> out.built,
                           sent |-> "no"]
            /\ UNCHANGED <<gm_credentials, sends, email_address>>

\* the effect of one send_email(js, recipient) call
SendEmailCall(js) ==
    \E send_ok \in BOOLEAN :
        LET out == send_email(gm_service, send_ok)
        IN  /\ gm_last' = [op |-> "send_email", raised |-> out.raised,
                           pre_token |-> gm_token,
                           pre_credentials |-> gm_credentials,
                           pre_service |-> gm_service,
                           refresh |-> "no", flow |-> "no", wrote |-> FALSE,
                           built |-> FALSE, sent |-> out.sent]
            /\ sends' = IF out.sent = "no" THEN sends ELSE sends + 1
            /\ IF out.created
               THEN email_jobs' = js /\ digest' = create_email(js)
               ELSE UNCHANGED <<email_jobs, digest>>
            /\ UNCHANGED <<gm_token, gm_credentials, gm_service, email_address>>

\* lists a direct caller hands to send_email
SendInputs == {<<>>, create_sample_jobs}

\* a direct caller of GmailSender (calls are sequential: none is made
\* while run_scraping is under way)
Authenticate ==
    /\ main_pc = "none"
    /\ pc = "idle"
    /\ AuthenticateCall
    /\ UNCHANGED <<main_pc, fetch_vars, run_vars, digest_vars, card_vars>>

SendEmail ==
    /\ main_pc = "none"
    /\ pc = "idle"
    /\ sends < MaxSends
    /\ \E js \in SendInputs : SendEmailCall(js)
    /\ UNCHANGED <<main_pc, fetch_vars, run_vars, card_vars>>

\* main: email_address = os.getenv('EMAIL_ADDRESS'); if not email_address: return
MainStart ==
    /\ main_pc = "start"
    /\ main_pc' = IF email_address = "" THEN "exit" ELSE "scraping"
    /\ UNCHANGED <<gm_token, gm_credentials, gm_service, gm_last, sends,
                   email_address, fetch_vars, run_vars, digest_vars, card_vars>>

\* main: jobs = scraper.run_scraping(), on a new scraper
MainRunScraping ==
    /\ main_pc = "scraping"
    /\ calls = 0
    /\ ScrapeIndeed

\* main goes on after run_scraping only when it returned; an exception
\* leaves the try block
run_scraping_returned_mut(p, r) == p = "idle" /\ r # "none"
run_scraping_returned(p, r) == p = "idle" /\ r = "returned"

\* main: except Exception: log and raise, for an error of run_scraping
MainRaise ==
    /\ main_pc = "scraping"
    /\ pc = "idle" /\ ret = "raised"
    /\ main_pc' = "raised"
    /\ UNCHANGED <<gm_token, gm_credentials, gm_service, gm_last, sends,
                   email_address, fetch_vars, run_vars, digest_vars, card_vars>>

\* main: if not jobs: return; gmail_sender = GmailSender();
\* gmail_sender.authenticate()
MainAuthenticate ==
    /\ main_pc = "scraping"
    /\ run_scraping_returned(pc, ret)
    /\ IF jobs = <<>>
       THEN /\ main_pc' = "exit"
            /\ UNCHANGED <<gm_token, gm_credentials, gm_service, gm_last,
                           sends, email_address>>
       ELSE /\ AuthenticateCall
            /\ main_pc' = IF gm_last'.raised THEN "raised" ELSE "authed"
    /\ UNCHANGED <<fetch_vars, run_vars, digest_vars, card_vars>>

\* main: gmail_sender.send_email(jobs, email_address)
MainSendEmail ==
    /\ main_pc = "authed"
    /\ SendEmailCall(jobs)
    /\ main_pc' = IF gm_last'.raised THEN "raised" ELSE "done"
    /\ UNCHANGED <<fetch_vars, run_vars, card_vars>>

\* pages served while main runs
MainWebs == {w \in Webs : Len(w) <= 1}

InitDelivery ==
    /\ main_pc \in {"start", "none"}
    /\ email_address \in
          IF main_pc = "start" THEN {"", "me@example.com"} ELSE {""}
    /\ web \in IF main_pc = "start" THEN MainWebs ELSE {<<>>}
    /\ gm_token \in TokenFiles
    /\ gm_credentials \in BOOLEAN
    /\ gm_service = FALSE
    /\ gm_last = NoCall
    /\ sends = 0
    /\ RunIdle
    /\ FetchIdle
    /\ DigestIdle
    /\ CardIdle

NextDelivery ==
    \/ Authenticate
    \/ SendEmail
    \/ MainStart
    \/ MainRunScraping
    \/ ScrapeHillsborough
    \/ ScrapePinellas
    \/ ScrapeTampa
    \/ ScrapeStPete
    \/ ScrapeFlStateParks
    \/ FinishRun
    \/ MainRaise
    \/ MainAuthenticate
    \/ MainSendEmail

SpecDelivery == InitDelivery /\ [][NextDelivery]_vars

\* -------------------------------------------------- delivery: properties
InMain == main_pc # "none"

AuthFailed(l) ==
    \/ l.refresh = "failed"
    \/ l.flow = "failed"
    \/ (l.refresh = "no" /\ l.flow = "no" /\ ~l.built)     \* no credentials file

\* C13: a failed authentication, a send_email before a successful
\* authenticate and a failed send call are raised to the caller, and out of
\* main when main is the caller; main attempts the send call at most once
\* and not at all after a failed authentication.
C13_DeliveryFatal ==
    /\ (gm_last.op = "authenticate" /\ AuthFailed(gm_last)) => gm_last.raised
    /\ (gm_last.op = "send_email" /\ ~gm_last.pre_service) =>
          (gm_last.raised /\ gm_last.sent = "no")
    /\ (gm_last.op = "send_email" /\ gm_last.sent = "failed") => gm_last.raised
    /\ InMain =>
          /\ gm_last.raised => main_pc = "raised"
          /\ sends <= 1
          /\ (gm_last.op = "authenticate" /\ gm_last.raised) => sends = 0
          /\ (gm_last.sent = "failed") => sends = 1

C13_Witness ==
    /\ main_pc = "raised"
    /\ gm_last.op = "send_email"
    /\ gm_last.sent = "failed"
    /\ gm_last.raised
    /\ sends = 1

\* C14: in main with the recipient set, authentication comes only after all
\* six sources were fetched and the snapshot was written exactly once, the
\* send only after a successful authentication and at most once, and a
\* delivery failure leaves the written snapshot in place.
C14_MainOrder ==
    (InMain /\ email_address # "") =>
        /\ writes <= 1
        /\ sends <= 1
        /\ (gm_last.op # "none") =>
              /\ fetched = SourceOrder
              /\ writes = 1
              /\ persist = "written"
              /\ snapshot = jobs
        /\ (gm_last.op = "send_email") => (gm_last.pre_service /\ gm_service)
        /\ (sends = 1) => gm_last.op = "send_email"
        /\ (main_pc = "done") => (sends = 1 /\ gm_last.sent = "ok")
        /\ (main_pc = "raised" /\ gm_last.raised) =>
              (writes = 1 /\ snapshot = jobs /\ snapshot # <<>>)

C14_Witness ==
    /\ main_pc = "done"
    /\ email_address # ""
    /\ sends = 1
    /\ writes = 1
    /\ Len(jobs) = 1
    /\ snapshot = jobs

TokenValid(t) == t.exists /\ t.token /\ ~t.expired
TokenRefreshable(t) == t.exists /\ t.expired /\ t.refresh_token

\* C15: a valid loaded token: no refresh, no interactive flow, token file
\* not rewritten; an expired one with a refresh token: refresh, no flow;
\* every other case: the flow, and only if the credentials file exists,
\* else an error; token file written and service set only after the
\* credentials were obtained.
C15_TokenHandling ==
    (gm_last.op = "authenticate") =>
        LET l == gm_last
            t == gm_last.pre_token
        IN  /\ TokenValid(t) =>
                  /\ l.refresh = "no" /\ l.flow = "no" /\ ~l.wrote
                  /\ gm_token = t
                  /\ ~l.raised /\ gm_service
            /\ TokenRefreshable(t) => (l.refresh # "no" /\ l.flow = "no")
            /\ (~TokenValid(t) /\ ~TokenRefreshable(t)) =>
                  /\ l.refresh = "no"
                  /\ l.pre_credentials => l.flow # "no"
                  /\ ~l.pre_credentials => (l.raised /\ l.flow = "no")
            /\ l.wrote <=> (l.refresh = "ok" \/ l.flow = "ok")
            /\ ~l.wrote => gm_token = t
            /\ l.built <=> (TokenValid(t) \/ l.refresh = "ok" \/ l.flow = "ok")
            /\ gm_service <=> (l.pre_service \/ l.built)
            /\ l.raised <=> ~l.built

C15_Witness ==
    /\ gm_last.op = "authenticate"
    /\ TokenRefreshable(gm_last.pre_token)
    /\ gm_last.refresh = "ok"
    /\ gm_last.wrote
    /\ gm_service

\* ------------------------------------------- a scraper used call by call
\* save_to_json called directly
SaveToJson ==
    /\ pc = "idle"
    /\ main_pc = "none"
    /\ writes < MaxRuns + MaxSaves
    /\ \E written \in BOOLEAN :
         IF written
         THEN snapshot' = jobs /\ writes' = writes + 1
         ELSE UNCHANGED <<snapshot, writes>>
    /\ UNCHANGED <<web, pc, ret, calls, jobs, park_jobs, entry, yielded,
                   aggregated, last, fetched, persist,
                   fetch_vars, digest_vars, card_vars, delivery_vars>>

\* create_email called directly on the scraper's list
CreateEmailCall ==
    /\ pc = "idle"
    /\ main_pc = "none"
    /\ email_jobs' = jobs
    /\ digest' = create_email(jobs)
    /\ UNCHANGED <<fetch_vars, run_vars, card_vars, delivery_vars>>

\* send_email called directly on the scraper's list
SendJobs ==
    /\ pc = "idle"
    /\ main_pc = "none"
    /\ sends < MaxSends
    /\ SendEmailCall(jobs)
    /\ UNCHANGED <<main_pc, fetch_vars, run_vars, card_vars>>

InitCalls ==
    /\ web \in MainWebs
    /\ RunIdle
    /\ FetchIdle
    /\ DigestIdle
    /\ CardIdle
    /\ gm_token = FreshToken                    \* a sender that authenticate()
    /\ gm_credentials = TRUE                    \* has set up with a valid token
    /\ gm_service = TRUE
    /\ gm_last = [NoCall EXCEPT !.op = "authenticate", !.pre_token = FreshToken,
                                !.pre_credentials = TRUE, !.built = TRUE]
    /\ sends = 0
    /\ email_address = ""
    /\ main_pc = "none"

NextCalls ==
    \/ ScrapeIndeed
    \/ ScrapeHillsborough
    \/ ScrapePinellas
    \/ ScrapeTampa
    \/ ScrapeStPete
    \/ ScrapeFlStateParks
    \/ FinishRun
    \/ SaveToJson
    \/ CreateEmailCall
    \/ SendJobs

SpecCalls == InitCalls /\ [][NextCalls]_vars

\* C16: no call modifies, removes or reorders a record already in
\* self.jobs: every step leaves the old list as a prefix of the new one, so
\* a later run_scraping returns the earlier records followed by the new.
C16_AppendOnly ==
    [][/\ Len(jobs') >= Len(jobs)
       /\ SubSeq(jobs', 1, Len(jobs)) = jobs]_vars

C16_Witness ==
    /\ Returned
    /\ calls = 2
    /\ entry # <<>>
    /\ Len(jobs) > Len(entry)
    /\ SubSeq(jobs, 1, Len(entry)) = entry
    /\ digest.built
    /\ sends > 0
    /\ writes > calls

====
